---- MODULE Spec2Model ----
(***************************************************************************)
(* A model of the HDX MCP server (src/src/hdx_mcp_server).                 *)
(*                                                                         *)
(* Part 1, the rate-limited dispatch gateway: the shared Throttler, the    *)
(* RateLimitedClient wrapper built by _wrap_client_with_rate_limiting,     *)
(* HDXMCPServer._rate_limited_request and the custom tools of              *)
(* tools/hdx_tools.py.                                                     *)
(*                                                                         *)
(* Part 2, the OpenAPI document pipeline of _load_openapi_spec: the schema *)
(* resolver _fix_openapi_schema_references, the operation catalog          *)
(* _simplify_operation_ids, _update_parameter_descriptions and the         *)
(* guidance injector _add_admin_level_guidance.                            *)
(*                                                                         *)
(* Part 3, start-up: main, HDXMCPServer.__init__ with _get_required_env,   *)
(* the route rules of _create_route_mappings and the tool schemas left by  *)
(* _customize_mcp_components.                                              *)
(*                                                                         *)
(* Time is discrete.  A timestamp is kept as its age (now - timestamp);    *)
(* Tick ages every timestamp by one, and an age is capped past the period, *)
(* where the limiter no longer tells ages apart.                           *)
(***************************************************************************)
EXTENDS Integers, Sequences, FiniteSets, TLC

\* Bounds of the model.
MaxRate == 2
MaxPeriod == 2
NumCalls == 2
NumGatewayCalls == 1

Calls == 1..NumCalls

VARIABLES
    rate_limit_requests,  \* HDXMCPServer.rate_limit_requests (R)
    rate_limit_period,    \* HDXMCPServer.rate_limit_period (P), in ticks
    task_logs,            \* per Throttler: the ages of its recorded admissions
    window,               \* history: ages of the admissions of the last P ticks
    pc,                   \* per call: idle, waiting, inflight, done, cancelled
    entry,                \* per call: the name the caller invoked
    args,                 \* per call: the caller's arguments
    admits,               \* per call: admissions granted to it so far
    waited,               \* per call: it was suspended in Throttler.acquire
    sent,                 \* per call: invocations received by the base client
    outcome,              \* per call: what the network produced
    result,               \* per call: what the caller got back
    lastread,             \* the last attribute read through the wrapper
    loaded_spec,          \* the OpenAPI document as fetched from the API
    openapi_spec,         \* the document as transformed so far
    stage,                \* position of main and HDXMCPServer.__init__
    passed,               \* the argument of the last pass, as the pass left it
    environ,              \* os.environ: the value of HDX_API_KEY, if any
    server                \* the HDXMCPServer being built and its process

vars == <<rate_limit_requests, rate_limit_period, task_logs, window, pc, entry,
          args, admits, waited, sent, outcome, result, lastread,
          loaded_spec, openapi_spec, stage, passed, environ, server>>

limiter_vars == <<rate_limit_requests, rate_limit_period, task_logs, window>>
call_vars == <<pc, entry, args, admits, waited, sent, outcome, result>>
doc_vars == <<loaded_spec, openapi_spec, stage, passed>>
boot_vars == <<environ, server>>

----------------------------------------------------------------------------
\* The names a caller can invoke on the server's client object or tool set.

\* The eight coroutine methods the wrapper class defines itself.
HttpVerbs == {"get", "post", "put", "patch", "delete", "head", "options", "request"}

\* The custom tools that make an upstream call.
CustomTools == {"get_dataset_info", "search_locations"}

\* Public request-sending methods of httpx.AsyncClient the wrapper class does
\* not define: a lookup of these names falls through to __getattr__.
ForwardedMethods == {"send", "stream"}

\* Configuration attributes of the base client.
ConfigAttrs == {"base_url", "headers", "timeout", "params"}

Entries == HttpVerbs \cup CustomTools \cup ForwardedMethods

ArgValues == {"a1", "a2"}

\* The arguments of search_locations: name_pattern: Optional[str] and
\* has_hrp: Optional[bool], written as strings.
SearchArgs == [name_pattern : {"None", "", "Sudan"}, has_hrp : {"None", "True", "False"}]

\* What a caller can pass to an entry point.
ArgsOf(e) == IF e = "search_locations" THEN SearchArgs ELSE ArgValues

\* What the network can produce for one request.
Raised == {"timeout", "connect_error"}
Responded == {"ok", "empty", "status_error", "malformed"}
Outcomes == Raised \cup Responded

----------------------------------------------------------------------------
\* HDXMCPServer.__init__ and _create_http_client.

\* self.throttler, the one Throttler the server constructs.
ServerThrottler == "self.throttler"

ThrottlerIds == {ServerThrottler, "other"}

\* The throttler handed to the wrapper: RateLimitedClient(client, self.throttler).
WrapperThrottler_Own == "other"
WrapperThrottler == ServerThrottler

\* Throttler(rate_limit=self.rate_limit_requests, period=self.rate_limit_period)
ThrottlerRateLimit_OffByOne == rate_limit_requests - 1
ThrottlerRateLimit == rate_limit_requests

ThrottlerPeriod_TooLong == rate_limit_period + 1
ThrottlerPeriod == rate_limit_period

\* httpx.AsyncClient(base_url=..., headers=..., timeout=..., params=...)
BaseClient ==
    [base_url |-> "self.base_url",
     headers  |-> "X-HDX-HAPI-APP-IDENTIFIER,Content-Type,Accept",
     timeout  |-> "self.timeout",
     params   |-> "app_identifier"]

----------------------------------------------------------------------------
\* asyncio_throttle.Throttler (imported at server.py:20).

\* flush(): pop from the left every timestamp older than the period.
RECURSIVE flush(_)
flush(log) ==
    IF log # <<>> /\ Head(log) > ThrottlerPeriod THEN flush(Tail(log)) ELSE log

\* One pass of the loop of acquire(): flush, then admit if the log is short
\* of rate_limit (recording the admission now, age 0), else keep waiting.
acquire(log) ==
    LET fl == flush(log) IN
    IF Len(fl) < ThrottlerRateLimit
    THEN [admitted |-> TRUE, log |-> Append(fl, 0)]
    ELSE [admitted |-> FALSE, log |-> fl]

----------------------------------------------------------------------------
\* RateLimitedClient.

\* _rate_limited_method: "async with self._throttler" around the base call.
rate_limited_method_NoThrottle == <<>>
rate_limited_method == <<WrapperThrottler>>

\* HDXMCPServer._rate_limited_request: "async with self.throttler" around
\* getattr(self.client, method.lower())(url, **kwargs), and self.client is
\* the wrapper, so the wrapper's own admission follows.
rate_limited_request == <<ServerThrottler>> \o rate_limited_method

\* get, post, ..., request: each passes its own name to _rate_limited_method,
\* which looks that name up on the base client.
WrapperMethodName(verb) == verb

\* The throttlers an invocation has to be admitted by, in order, before the
\* base client is called.
Throttlers(e) ==
    IF e \in HttpVerbs THEN rate_limited_method
    ELSE IF e \in CustomTools THEN rate_limited_request
    ELSE <<>>

\* The base-client method an invocation ends in.  Both custom tools call
\* _rate_limited_request("get", ...).
BaseMethod(e) ==
    IF e \in HttpVerbs THEN WrapperMethodName(e)
    ELSE IF e \in CustomTools THEN WrapperMethodName("get")
    ELSE e

\* *args, **kwargs are passed on as they are.
ForwardArgs_Dropped(a) == "a1"
ForwardArgs(a) == a

\* Attribute lookup on the wrapper object: the instance dictionary
\* (_client, _throttler), then the class, then __getattr__, which reads the
\* base client.
WrapperGetattr(name) ==
    IF name = "_client" THEN "base_client"
    ELSE IF name = "_throttler" THEN WrapperThrottler
    ELSE IF name \in HttpVerbs THEN "rate_limited"
    ELSE IF name \in ForwardedMethods THEN "base_method"
    ELSE BaseClient[name]

\* What the awaited base-client method gives: a response or an exception.
Upstream(o) ==
    IF o \in Raised THEN [t |-> "raise", v |-> o] ELSE [t |-> "response", v |-> o]

----------------------------------------------------------------------------
\* tools/hdx_tools.py.  A tool's result is what its caller gets: an envelope
\* (a returned dictionary) or a raised exception.

\* The try block fails when the request raises, when raise_for_status()
\* raises on a non-success status, or when response.json() raises.
TryFails(up) == up.t = "raise" \/ up.v \in {"status_error", "malformed"}

get_dataset_info(up, dataset_hdx_id) ==
    IF TryFails(up)
    THEN [t |-> "envelope",
          v |-> [error |-> "Failed to fetch dataset information",
                 dataset_hdx_id |-> dataset_hdx_id]]
    ELSE IF up.v = "empty"
    THEN [t |-> "envelope",
          v |-> [error |-> "Dataset not found",
                 dataset_hdx_id |-> dataset_hdx_id]]
    ELSE [t |-> "envelope",
          v |-> [status |-> "success", dataset |-> "data[0]",
                 dataset_hdx_id |-> dataset_hdx_id]]

\* str(has_hrp).lower()
StrLower(b) == IF b = "True" THEN "true" ELSE IF b = "False" THEN "false" ELSE "none"

\* The query of search_locations: name only if name_pattern is truthy,
\* has_hrp only if it is not None.
SearchParams(a) ==
    LET keys == (IF a.name_pattern \notin {"None", ""} THEN {"name"} ELSE {})
                \cup (IF a.has_hrp # "None" THEN {"has_hrp"} ELSE {})
    IN [k \in keys |-> IF k = "name" THEN a.name_pattern ELSE StrLower(a.has_hrp)]

\* The keyword arguments a custom tool hands to _rate_limited_request.
ToolParams(e, a) ==
    IF e = "search_locations" THEN SearchParams(a)
    ELSE IF e = "get_dataset_info" THEN [dataset_hdx_id |-> a]
    ELSE a

search_locations_Unguarded(up, a) ==
    IF up.t = "raise" \/ up.v = "status_error"
    THEN [t |-> "raise", v |-> up.v]
    ELSE IF up.v = "malformed"
    THEN [t |-> "envelope",
          v |-> [error |-> "Failed to search locations",
                 filters_applied |-> [name_pattern |-> a.name_pattern,
                                      has_hrp |-> a.has_hrp]]]
    ELSE [t |-> "envelope",
          v |-> [status |-> "success", locations |-> up.v,
                 count |-> IF up.v = "empty" THEN 0 ELSE 1,
                 filters_applied |-> [name_pattern |-> a.name_pattern,
                                      has_hrp |-> a.has_hrp]]]
search_locations_EchoParams(up, a) ==
    IF TryFails(up)
    THEN [t |-> "envelope",
          v |-> [error |-> "Failed to search locations",
                 filters_applied |-> SearchParams(a)]]
    ELSE [t |-> "envelope",
          v |-> [status |-> "success", locations |-> up.v,
                 count |-> IF up.v = "empty" THEN 0 ELSE 1,
                 filters_applied |-> SearchParams(a)]]
search_locations(up, a) ==
    IF TryFails(up)
    THEN [t |-> "envelope",
          v |-> [error |-> "Failed to search locations",
                 filters_applied |-> [name_pattern |-> a.name_pattern,
                                      has_hrp |-> a.has_hrp]]]
    ELSE [t |-> "envelope",
          v |-> [status |-> "success", locations |-> up.v,
                 count |-> IF up.v = "empty" THEN 0 ELSE 1,
                 filters_applied |-> [name_pattern |-> a.name_pattern,
                                      has_hrp |-> a.has_hrp]]]

\* What the caller of an entry point gets once the base client has answered:
\* the wrapper and _rate_limited_request return the awaited value as it is.
Return(e, a, up) ==
    IF e = "get_dataset_info" THEN get_dataset_info(up, a)
    ELSE IF e = "search_locations" THEN search_locations(up, a)
    ELSE up

----------------------------------------------------------------------------
\* One invocation, from the caller's await to its first suspension.

\* Enter the throttlers of pl one after the other, starting after the k
\* already passed, until one does not admit.  No suspension point lies
\* between an admission and the next "async with", nor before the base call.
RECURSIVE Run(_, _, _, _)
Run(logs, win, pl, k) ==
    IF k = Len(pl)
    THEN [logs |-> logs, win |-> win, k |-> k, blocked |-> FALSE]
    ELSE LET r == acquire(logs[pl[k + 1]]) IN
         IF r.admitted
         THEN Run([logs EXCEPT ![pl[k + 1]] = r.log], Append(win, 0), pl, k + 1)
         ELSE [logs |-> [logs EXCEPT ![pl[k + 1]] = r.log], win |-> win,
               k |-> k, blocked |-> TRUE]

Proceed(c, e, a, r) ==
    /\ task_logs' = r.logs
    /\ window' = r.win
    /\ admits' = [admits EXCEPT ![c] = r.k]
    /\ IF r.blocked
       THEN /\ pc' = [pc EXCEPT ![c] = "waiting"]
            /\ waited' = [waited EXCEPT ![c] = TRUE]
            /\ sent' = sent
       ELSE /\ pc' = [pc EXCEPT ![c] = "inflight"]
            /\ waited' = waited
            /\ sent' = [sent EXCEPT ![c] =
                          Append(@, [method |-> BaseMethod(e),
                                     args |-> ForwardArgs(ToolParams(e, a))])]

\* A caller invokes entry point e with arguments a.
Invoke(c, e, a) ==
    /\ pc[c] = "idle"
    /\ entry' = [entry EXCEPT ![c] = e]
    /\ args' = [args EXCEPT ![c] = a]
    /\ Proceed(c, e, a, Run(task_logs, window, Throttlers(e), 0))
    /\ UNCHANGED <<rate_limit_requests, rate_limit_period, outcome, result, lastread, doc_vars, boot_vars>>

\* A suspended call wakes from asyncio.sleep(retry_interval) and goes round
\* the loop of acquire() again.
Poll(c) ==
    /\ pc[c] = "waiting"
    /\ Proceed(c, entry[c], args[c],
               Run(task_logs, window, Throttlers(entry[c]), admits[c]))
    /\ UNCHANGED <<rate_limit_requests, rate_limit_period, entry, args, outcome,
                   result, lastread, doc_vars, boot_vars>>

\* The base client's coroutine finishes with outcome o; "async with" exits
\* (Throttler.__aexit__ does nothing) and the value travels to the caller.
Complete_FailFast(c, o) ==
    /\ pc[c] = "inflight"
    /\ pc' = [d \in Calls |->
                IF d = c THEN "done"
                ELSE IF o \in Raised /\ pc[d] \in {"waiting", "inflight"} THEN "cancelled"
                ELSE pc[d]]
    /\ outcome' = [outcome EXCEPT ![c] = o]
    /\ result' = [result EXCEPT ![c] = Return(entry[c], args[c], Upstream(o))]
    /\ UNCHANGED <<limiter_vars, entry, args, admits, waited, sent, lastread, doc_vars, boot_vars>>
Complete_Recording(c, o) ==
    /\ pc[c] = "inflight"
    /\ pc' = [pc EXCEPT ![c] = "done"]
    /\ outcome' = [outcome EXCEPT ![c] = o]
    /\ result' = [result EXCEPT ![c] = Return(entry[c], args[c], Upstream(o))]
    /\ task_logs' = [t \in ThrottlerIds |->
                       IF t \in {Throttlers(entry[c])[i] : i \in 1..Len(Throttlers(entry[c]))}
                       THEN Append(task_logs[t], 0) ELSE task_logs[t]]
    /\ UNCHANGED <<rate_limit_requests, rate_limit_period, window, entry, args,
                   admits, waited, sent, lastread, doc_vars, boot_vars>>
Complete(c, o) ==
    /\ pc[c] = "inflight"
    /\ pc' = [pc EXCEPT ![c] = "done"]
    /\ outcome' = [outcome EXCEPT ![c] = o]
    /\ result' = [result EXCEPT ![c] = Return(entry[c], args[c], Upstream(o))]
    /\ UNCHANGED <<limiter_vars, entry, args, admits, waited, sent, lastread, doc_vars, boot_vars>>

\* The caller abandons a suspended invocation: CancelledError is raised at
\* the await it is suspended in (the sleep of acquire() or the base call).
\* It is not an Exception, so no handler of the tools catches it.
Cancel(c) ==
    /\ pc[c] \in {"waiting", "inflight"}
    /\ pc' = [pc EXCEPT ![c] = "cancelled"]
    /\ result' = [result EXCEPT ![c] = [t |-> "raise", v |-> "CancelledError"]]
    /\ UNCHANGED <<limiter_vars, entry, args, admits, waited, sent, outcome, lastread, doc_vars, boot_vars>>

\* The caller reads a configuration attribute through the wrapper.
ReadAttr(name) ==
    /\ lastread' = [name |-> name, value |-> WrapperGetattr(name)]
    /\ UNCHANGED <<limiter_vars, call_vars, doc_vars, boot_vars>>

\* One tick of the monotonic clock.  Ages stop growing two ticks past the
\* period.
AgeCap == rate_limit_period + 2
Older(a) == IF a < AgeCap THEN a + 1 ELSE a
Tick ==
    /\ task_logs' = [t \in ThrottlerIds |->
                       [i \in 1..Len(task_logs[t]) |-> Older(task_logs[t][i])]]
    /\ window' = SelectSeq([i \in 1..Len(window) |-> window[i] + 1],
                           LAMBDA a : a <= rate_limit_period)
    /\ UNCHANGED <<rate_limit_requests, rate_limit_period, call_vars, lastread, doc_vars, boot_vars>>

----------------------------------------------------------------------------
\* Part 2: the OpenAPI document pipeline.
\*
\* A JSON value carries its Python type: a str, an int, a dict (a function
\* from its keys) or a list (a sequence).
Str(s) == [k |-> "str", p |-> s]
Num(n) == [k |-> "int", n |-> n]
Dict(d) == [k |-> "dict", d |-> d]
List(l) == [k |-> "list", l |-> l]
NoKeys == [key \in {} |-> key]

IsDict(v) == v.k = "dict"
IsList(v) == v.k = "list"

\* d[key] = value on a dict.
Put(d, key, value) == [x \in DOMAIN d \cup {key} |-> IF x = key THEN value ELSE d[x]]

\* bool(v) of a dict or list: empty is false.
Truthy(v) ==
    IF IsDict(v) THEN DOMAIN v.d # {}
    ELSE IF IsList(v) THEN Len(v.l) > 0
    ELSE TRUE

\* The reference paths of the model: "#/components/schemas/" + name, and one
\* path that does not point into components/schemas.
SchemaRefs ==
    [Name  |-> "#/components/schemas/Name",
     Alias |-> "#/components/schemas/Alias",
     Node  |-> "#/components/schemas/Node",
     Self  |-> "#/components/schemas/Self",
     Gone  |-> "#/components/schemas/Gone"]
ExternalRef == "#/definitions/Name"

\* ref_path.startswith("#/components/schemas/") and the name after it.
StartsWithSchemas(ref_path) == \E name \in DOMAIN SchemaRefs : SchemaRefs[name] = ref_path
SchemaName(ref_path) == CHOOSE name \in DOMAIN SchemaRefs : SchemaRefs[name] = ref_path

Ref(ref_path) == Dict("$ref" :> Str(ref_path))
RefWith(ref_path, siblings) == Dict(("$ref" :> Str(ref_path)) @@ siblings)

\* resolve_ref: a copy of the named definition, or {} when there is none.
resolve_ref_Placeholder(schemas, ref_path) ==
    IF StartsWithSchemas(ref_path) /\ SchemaName(ref_path) \in DOMAIN schemas
    THEN schemas[SchemaName(ref_path)]
    ELSE Dict([title |-> Str("unresolved")])
resolve_ref(schemas, ref_path) ==
    IF StartsWithSchemas(ref_path) /\ SchemaName(ref_path) \in DOMAIN schemas
    THEN schemas[SchemaName(ref_path)]
    ELSE Dict(NoKeys)

\* The copy of the target with every key of the reference node other than
\* $ref assigned onto it.
MergeSiblings_TargetWins(resolved_schema, obj) ==
    Dict([key \in DOMAIN resolved_schema.d \cup (DOMAIN obj.d \ {"$ref"}) |->
            IF key \in DOMAIN resolved_schema.d THEN resolved_schema.d[key]
            ELSE obj.d[key]])
MergeSiblings(resolved_schema, obj) ==
    Dict([key \in DOMAIN resolved_schema.d \cup (DOMAIN obj.d \ {"$ref"}) |->
            IF key \in DOMAIN obj.d \ {"$ref"} THEN obj.d[key]
            ELSE resolved_schema.d[key]])

\* "if depth > 10".
MaxDepth == 10
DepthExceeded_Late(depth) == depth > MaxDepth + 2
DepthExceeded(depth) == depth > MaxDepth

\* The branch of the elif chain a dict without $ref takes: the first of
\* anyOf, oneOf, allOf that is present and holds a list.
CompositeKey(obj) ==
    IF "anyOf" \in DOMAIN obj.d /\ IsList(obj.d["anyOf"]) THEN "anyOf"
    ELSE IF "oneOf" \in DOMAIN obj.d /\ IsList(obj.d["oneOf"]) THEN "oneOf"
    ELSE IF "allOf" \in DOMAIN obj.d /\ IsList(obj.d["allOf"]) THEN "allOf"
    ELSE "none"

RECURSIVE resolve_refs_recursively(_, _, _)
resolve_refs_recursively(schemas, obj, depth) ==
    IF DepthExceeded(depth) THEN obj
    ELSE IF IsDict(obj) THEN
        IF "$ref" \in DOMAIN obj.d THEN
            LET resolved_schema == resolve_ref(schemas, obj.d["$ref"].p)
            IN IF Truthy(resolved_schema)
               THEN resolve_refs_recursively(
                        schemas, MergeSiblings(resolved_schema, obj), depth + 1)
               ELSE obj
        ELSE IF CompositeKey(obj) # "none" THEN
            LET key == CompositeKey(obj)
                items == obj.d[key].l
            IN Dict([obj.d EXCEPT ![key] =
                        List([i \in 1..Len(items) |->
                                resolve_refs_recursively(schemas, items[i], depth + 1)])])
        ELSE Dict([key \in DOMAIN obj.d |->
                      resolve_refs_recursively(schemas, obj.d[key], depth + 1)])
    ELSE IF IsList(obj) THEN
        List([i \in 1..Len(obj.l) |->
                resolve_refs_recursively(schemas, obj.l[i], depth + 1)])
    ELSE obj

\* The greatest depth at which resolve_refs_recursively is entered while it
\* resolves obj from the given depth.
Max(S) == CHOOSE x \in S : \A y \in S : y <= x

RECURSIVE RecursionDepth(_, _, _)
RecursionDepth(schemas, obj, depth) ==
    IF DepthExceeded(depth) THEN depth
    ELSE IF IsDict(obj) THEN
        IF "$ref" \in DOMAIN obj.d THEN
            LET resolved_schema == resolve_ref(schemas, obj.d["$ref"].p)
            IN IF Truthy(resolved_schema)
               THEN RecursionDepth(schemas, MergeSiblings(resolved_schema, obj), depth + 1)
               ELSE depth
        ELSE IF CompositeKey(obj) # "none" THEN
            LET items == obj.d[CompositeKey(obj)].l
            IN Max({depth} \cup {RecursionDepth(schemas, items[i], depth + 1) :
                                   i \in 1..Len(items)})
        ELSE Max({depth} \cup {RecursionDepth(schemas, obj.d[key], depth + 1) :
                                 key \in DOMAIN obj.d})
    ELSE IF IsList(obj) THEN
        Max({depth} \cup {RecursionDepth(schemas, obj.l[i], depth + 1) :
                            i \in 1..Len(obj.l)})
    ELSE depth

\* The defaults forced on parameters, by parameter name.
DefaultOverrides_NoGender == [limit |-> Num(10), age_range |-> Str("all")]
DefaultOverrides ==
    [limit |-> Num(10), age_range |-> Str("all"), gender |-> Str("all")]

\* param["schema"]["default"] = ... for the named parameters that have a
\* schema.
SetDefault(param) ==
    IF /\ "name" \in DOMAIN param
       /\ param["name"] \in DOMAIN DefaultOverrides
       /\ "schema" \in DOMAIN param
    THEN [param EXCEPT !["schema"] =
             Dict(Put(@.d, "default", DefaultOverrides[param["name"]]))]
    ELSE param

\* One parameter: the default override, then the resolution of its schema.
FixParameter(schemas, param) ==
    LET named == SetDefault(param)
    IN IF "schema" \in DOMAIN named
       THEN [named EXCEPT !["schema"] = resolve_refs_recursively(schemas, @, 0)]
       ELSE named

\* One media type of a response or request body (the model keeps one media
\* type per content).
FixContent(schemas, media_type_data) ==
    IF "schema" \in DOMAIN media_type_data
    THEN [media_type_data EXCEPT !["schema"] = resolve_refs_recursively(schemas, @, 0)]
    ELSE media_type_data

FixOperation(schemas, method_data) ==
    [key \in DOMAIN method_data |->
        IF key = "parameters"
        THEN [i \in 1..Len(method_data[key]) |-> FixParameter(schemas, method_data[key][i])]
        ELSE IF key = "responses"
        THEN [code \in DOMAIN method_data[key] |-> FixContent(schemas, method_data[key][code])]
        ELSE IF key = "requestBody"
        THEN FixContent(schemas, method_data[key])
        ELSE method_data[key]]

\* _fix_openapi_schema_references: every operation of every path.
fix_openapi_schema_references(spec) ==
    [spec EXCEPT !.paths =
        [path \in DOMAIN @ |->
            [method \in DOMAIN @[path] |-> FixOperation(spec.schemas, @[path][method])]]]

\* Every pass starts with copy.deepcopy(spec) and edits the copy.  The parts
\* of the argument that the working copy still shares with it: none.  (A
\* shallow copy shares the objects under "schemas" and "paths".)
deepcopy_Shallow == {"schemas", "paths"}
deepcopy == {}

\* The argument of a pass once the pass has returned: an edit of a shared
\* part is an edit of the argument.
Argument(spec, edited, shared) ==
    [part \in DOMAIN spec |-> IF part \in shared THEN edited[part] ELSE spec[part]]

\* spec = self._pass(spec) in _load_openapi_spec.
Call(edited, next) ==
    /\ openapi_spec' = edited
    /\ passed' = [spec |-> Argument(openapi_spec, edited, deepcopy), shared |-> deepcopy]
    /\ stage' = next
    /\ UNCHANGED <<limiter_vars, call_vars, lastread, loaded_spec, boot_vars>>

\* _load_openapi_spec, first transformation.
FixSchemaReferences ==
    /\ stage = "loaded"
    /\ Call(fix_openapi_schema_references(openapi_spec), "fixed")

\* The fixed table of _simplify_operation_ids.
path_to_operation_id ==
    LET table ==
        ("/api/v2/affected-people/refugees-persons-of-concern" :> "affected_people_refugees_get")
        @@ ("/api/v2/affected-people/humanitarian-needs" :> "affected_people_humanitarian_needs_get")
        @@ ("/api/v2/affected-people/idps" :> "affected_people_idps_get")
        @@ ("/api/v2/affected-people/returnees" :> "affected_people_returnees_get")
        @@ ("/api/v2/coordination-context/operational-presence" :> "coordination_operational_presence_get")
        @@ ("/api/v2/coordination-context/funding" :> "coordination_funding_get")
        @@ ("/api/v2/coordination-context/conflict-events" :> "coordination_conflict_events_get")
        @@ ("/api/v2/coordination-context/national-risk" :> "coordination_national_risk_get")
        @@ ("/api/v2/food-security-nutrition-poverty/food-security" :> "food_security_get")
        @@ ("/api/v2/food-security-nutrition-poverty/food-prices-market-monitor" :> "food_prices_get")
        @@ ("/api/v2/food-security-nutrition-poverty/poverty-rate" :> "poverty_rate_get")
        @@ ("/api/v2/geography-infrastructure/baseline-population" :> "baseline_population_get")
        @@ ("/api/v2/climate/rainfall" :> "climate_rainfall_get")
        @@ ("/api/v2/metadata/dataset" :> "metadata_dataset_get")
        @@ ("/api/v2/metadata/resource" :> "metadata_resource_get")
        @@ ("/api/v2/metadata/location" :> "metadata_location_get")
        @@ ("/api/v2/metadata/admin1" :> "metadata_admin1_get")
        @@ ("/api/v2/metadata/admin2" :> "metadata_admin2_get")
        @@ ("/api/v2/metadata/currency" :> "metadata_currency_get")
        @@ ("/api/v2/metadata/org" :> "metadata_org_get")
        @@ ("/api/v2/metadata/org-type" :> "metadata_org_type_get")
        @@ ("/api/v2/metadata/sector" :> "metadata_sector_get")
        @@ ("/api/v2/metadata/wfp-commodity" :> "metadata_wfp_commodity_get")
        @@ ("/api/v2/metadata/wfp-market" :> "metadata_wfp_market_get")
        @@ ("/api/v2/metadata/data-availability" :> "metadata_data_availability_get")
        @@ ("/api/v2/util/version" :> "util_version_get")
    IN [key \in DOMAIN table |-> table[key]]

\* _simplify_operation_ids: on every path of the table, every method that
\* carries an operationId gets the identifier of the path.
simplify_operation_ids_Unmapped(spec) ==
    [spec EXCEPT !.paths =
        [path \in DOMAIN spec.paths |->
            [method \in DOMAIN spec.paths[path] |->
                IF "operationId" \in DOMAIN spec.paths[path][method]
                THEN [spec.paths[path][method] EXCEPT !["operationId"] =
                         IF path \in DOMAIN path_to_operation_id
                         THEN path_to_operation_id[path] ELSE "unmapped"]
                ELSE spec.paths[path][method]]]]
simplify_operation_ids(spec) ==
    [spec EXCEPT !.paths =
        [path \in DOMAIN spec.paths |->
            IF path \in DOMAIN path_to_operation_id
            THEN [method \in DOMAIN spec.paths[path] |->
                    IF "operationId" \in DOMAIN spec.paths[path][method]
                    THEN [spec.paths[path][method] EXCEPT !["operationId"] =
                             path_to_operation_id[path]]
                    ELSE spec.paths[path][method]]
            ELSE spec.paths[path]]]

\* _load_openapi_spec, second transformation.
SimplifyOperationIds ==
    /\ stage = "fixed"
    /\ Call(simplify_operation_ids(openapi_spec), "simplified")

\* A text (a summary, a description) is the sequence of its passages; a
\* passage is a piece of text that the patterns and the advisory texts of
\* the passes match as a whole.
In(passage, text) == \E i \in DOMAIN text : text[i] = passage

\* description_patterns of _update_parameter_descriptions: the links to the
\* documentation of an endpoint, then the remaining mentions of one.
description_patterns ==
    LET table ==
        ("See the <a>location endpoint</a> for details." :>
            "Use the metadata_location_get tool to get available location codes and names.")
        @@ ("See the <a>admin1 endpoint</a> for details." :>
            "Use the metadata_admin1_get tool to get available admin1 codes and names.")
        @@ ("See the <a>admin2 endpoint</a> for details." :>
            "Use the metadata_admin2_get tool to get available admin2 codes and names.")
        @@ ("See the <a>org type endpoint</a> for details." :>
            "Use the metadata_org_type_get tool to get available organization type codes and descriptions.")
        @@ ("See the <a>org endpoint</a> for details." :>
            "Use the metadata_org_get tool to get available organization codes and names.")
        @@ ("See the <a>sector endpoint</a> for details." :>
            "Use the metadata_sector_get tool to get available sector codes and names.")
        @@ ("See the <a>currency endpoint</a> for details." :>
            "Use the metadata_currency_get tool to get available currency codes.")
        @@ ("See the <a>wfp commodity endpoint</a> for details." :>
            "Use the metadata_wfp_commodity_get tool to get available WFP commodity codes and names.")
        @@ ("See the <a>wfp market endpoint</a> for details." :>
            "Use the metadata_wfp_market_get tool to get available WFP market codes and names.")
        @@ ("See the <a>dataset endpoint</a> for details." :>
            "Use the metadata_dataset_get tool to get available dataset information.")
        @@ ("See the <a>resource endpoint</a> for details." :>
            "Use the metadata_resource_get tool to get available resource information.")
        @@ ("location endpoint" :> "metadata_location_get tool")
        @@ ("admin1 endpoint" :> "metadata_admin1_get tool")
        @@ ("admin2 endpoint" :> "metadata_admin2_get tool")
        @@ ("org type endpoint" :> "metadata_org_type_get tool")
        @@ ("org endpoint" :> "metadata_org_get tool")
        @@ ("sector endpoint" :> "metadata_sector_get tool")
        @@ ("currency endpoint" :> "metadata_currency_get tool")
        @@ ("wfp commodity endpoint" :> "metadata_wfp_commodity_get tool")
        @@ ("wfp market endpoint" :> "metadata_wfp_market_get tool")
        @@ ("dataset endpoint" :> "metadata_dataset_get tool")
        @@ ("resource endpoint" :> "metadata_resource_get tool")
    IN [key \in DOMAIN table |-> table[key]]

\* re.sub of every pattern on one description.
UpdateDescription(text) ==
    [i \in DOMAIN text |->
        IF text[i] \in DOMAIN description_patterns
        THEN description_patterns[text[i]] ELSE text[i]]

\* update_descriptions_recursive on a dict: its own description, then its
\* values.  The documents carry descriptions on operations and parameters.
UpdateDescribed(obj) ==
    IF "description" \in DOMAIN obj
    THEN [obj EXCEPT !["description"] = UpdateDescription(@)]
    ELSE obj

UpdateOperation(method_data) ==
    LET described == UpdateDescribed(method_data)
    IN IF "parameters" \in DOMAIN described
       THEN [described EXCEPT !["parameters"] =
                [i \in 1..Len(@) |-> UpdateDescribed(@[i])]]
       ELSE described

\* _update_parameter_descriptions: every operation of every path.
update_parameter_descriptions(spec) ==
    [spec EXCEPT !.paths =
        [path \in DOMAIN @ |->
            [method \in DOMAIN @[path] |-> UpdateOperation(@[path][method])]]]

\* _load_openapi_spec, third transformation.
UpdateParameterDescriptions ==
    /\ stage = "simplified"
    /\ Call(update_parameter_descriptions(openapi_spec), "described")

\* A path is the sequence of its words and separators, so that `x in path`
\* and the route patterns are tests on sub-sequences.
EncodePath == "/api/v2/encode_app_identifier"
IdpsPath == "/api/v2/affected-people/idps"
AdminPopulationPath == "/api/v2/population/admin1"
VersionPath == "/api/v2/util/version"
MetadataEncodePath == "/api/v2/metadata/encode_app_identifier"
PathWords ==
    LET table ==
        ("/api/v2/metadata/location" :> <<"/", "api", "/", "v2", "/", "metadata", "/", "location">>)
        @@ (EncodePath :> <<"/", "api", "/", "v2", "/", "encode", "_", "app", "_", "identifier">>)
        @@ (IdpsPath :> <<"/", "api", "/", "v2", "/", "affected", "-", "people", "/", "idps">>)
        @@ (AdminPopulationPath :> <<"/", "api", "/", "v2", "/", "population", "/", "admin1">>)
        @@ (VersionPath :> <<"/", "api", "/", "v2", "/", "util", "/", "version">>)
        @@ (MetadataEncodePath :> <<"/", "api", "/", "v2", "/", "metadata", "/",
                                    "encode", "_", "app", "_", "identifier">>)
    IN [key \in DOMAIN table |-> table[key]]

\* `fragment in path` on strings.
IsInfix(fragment, words) ==
    \E i \in 0..(Len(words) - Len(fragment)) :
        SubSeq(words, i + 1, i + Len(fragment)) = fragment

\* The lists and texts of _add_admin_level_guidance.
admin_level_endpoints ==
    {<<"affected", "-", "people">>, <<"baseline", "-", "population">>,
     <<"humanitarian", "-", "needs">>, <<"refugees">>, <<"idps">>, <<"returnees">>,
     <<"population">>, <<"food", "-", "security">>, <<"nutrition">>, <<"poverty">>,
     <<"conflict">>, <<"funding">>}
location_endpoints == {<<"location">>, <<"admin1">>, <<"admin2">>}
admin_level_guidance ==
    "CRITICAL - Data Coverage Warning, CRITICAL - Administrative Level Efficiency"
location_guidance == "CRITICAL - Data Coverage Warning (location metadata)"
pagination_guidance == "Pagination"
SkippedFragment == <<"app", "-", "identifier">>

AnyIn(endpoints, path) == \E endpoint \in endpoints : IsInfix(endpoint, PathWords[path])

\* if guidance not in text: text += guidance
AppendOnce_Always(text, guidance) == text \o <<guidance>>
AppendOnce(text, guidance) ==
    IF In(guidance, text) THEN text ELSE text \o <<guidance>>

\* The body of the loop over the operations of a path: the summary if there
\* is one, else the description if there is one.
GuideOperation(path, operation) ==
    IF "summary" \in DOMAIN operation
    THEN [operation EXCEPT !["summary"] =
            AppendOnce(IF AnyIn(admin_level_endpoints, path)
                       THEN AppendOnce(@, admin_level_guidance)
                       ELSE IF AnyIn(location_endpoints, path)
                       THEN AppendOnce(@, location_guidance)
                       ELSE @,
                       pagination_guidance)]
    ELSE IF "description" \in DOMAIN operation
    THEN [operation EXCEPT !["description"] =
            AppendOnce(IF AnyIn(location_endpoints, path)
                       THEN AppendOnce(@, location_guidance)
                       ELSE @,
                       pagination_guidance)]
    ELSE operation

\* _add_admin_level_guidance: every path but those with "app-identifier" in
\* them.
add_admin_level_guidance(spec) ==
    [spec EXCEPT !.paths =
        [path \in DOMAIN @ |->
            IF IsInfix(SkippedFragment, PathWords[path])
            THEN @[path]
            ELSE [method \in DOMAIN @[path] |-> GuideOperation(path, @[path][method])]]]

\* _load_openapi_spec, fourth transformation.
AddAdminLevelGuidance ==
    /\ stage = "described"
    /\ Call(add_admin_level_guidance(openapi_spec), "guided")

\* A document without paths.
NoSpec == [schemas |-> NoKeys, paths |-> NoKeys]

\* components/schemas of the documents the resolver is run on: a plain
\* definition, a definition that is itself a reference, a definition that
\* contains a reference to itself, and one that is a reference to itself.
\* "Gone" is not defined.
Definitions ==
    [Name  |-> Dict([type |-> Str("string"), title |-> Str("Name"),
                     default |-> Str("declared")]),
     Alias |-> RefWith(SchemaRefs.Name, [title |-> Str("Alias")]),
     Node  |-> Dict([type |-> Str("object"),
                     properties |-> Dict([next |-> Ref(SchemaRefs.Node)])]),
     Self  |-> Ref(SchemaRefs.Self)]

\* The schemas found at the points of use.
PlainSchemas ==
    {Dict([type |-> Str("integer"), default |-> Num(10000)]),
     Dict([type |-> Str("array"), items |-> Ref(SchemaRefs.Name)]),
     Dict([type |-> Str("object"),
           properties |-> Dict([a |-> Ref(SchemaRefs.Name),
                                b |-> Dict([anyOf |-> List(<<Ref(SchemaRefs.Alias)>>)])])])}
ReferenceSchemas ==
    {Ref(SchemaRefs.Name),
     RefWith(SchemaRefs.Name, [title |-> Str("Local"), description |-> Str("local")]),
     Ref(SchemaRefs.Alias),
     RefWith(SchemaRefs.Alias, [default |-> Str("local")])}
UnresolvableSchemas ==
    {RefWith(SchemaRefs.Gone, [description |-> Str("local")]),
     RefWith(ExternalRef, [title |-> Str("Local")]),
     RefWith(SchemaRefs.Gone, [anyOf |-> List(<<Ref(SchemaRefs.Name)>>)])}
CyclicSchemas ==
    {Ref(SchemaRefs.Node), Ref(SchemaRefs.Self)}
CompositeSchemas ==
    {Dict([anyOf |-> List(<<Ref(SchemaRefs.Name), Dict([type |-> Str("null")])>>),
           title |-> Str("Optional name")]),
     Dict([oneOf |-> List(<<Ref(SchemaRefs.Alias), Ref(SchemaRefs.Gone)>>)]),
     Dict([allOf |-> List(<<RefWith(SchemaRefs.Name, [title |-> Str("Local")])>>)]),
     Dict([anyOf |-> List(<<Dict([type |-> Str("object")])>>),
           properties |-> Dict([p |-> Ref(SchemaRefs.Name)])]),
     Dict([anyOf |-> List(<<Ref(SchemaRefs.Name)>>),
           oneOf |-> List(<<Ref(SchemaRefs.Name)>>)])}
SchemaInputs ==
    PlainSchemas \cup ReferenceSchemas \cup UnresolvableSchemas
        \cup CyclicSchemas \cup CompositeSchemas

ParamNames == {"limit", "age_range", "gender", "offset"}
ParamInputs ==
    {[name |-> n] : n \in ParamNames}
        \cup {[name |-> n, schema |-> s] : n \in ParamNames, s \in SchemaInputs}
ResponseInputs ==
    {NoKeys}
        \cup {[schema |-> s] :
                s \in {Ref(SchemaRefs.Name), Ref(SchemaRefs.Gone),
                       Dict([type |-> Str("array"), items |-> Ref(SchemaRefs.Alias)])}}
BodyInputs ==
    {NoKeys,
     [requestBody |-> [schema |-> RefWith(SchemaRefs.Alias, [title |-> Str("Body")])]]}

LocationPath == "/api/v2/metadata/location"

ResolverDocument(param, response, body) ==
    [schemas |-> Definitions,
     paths |-> (LocationPath :>
                 ("get" :>
                    ([operationId |-> "get_locations_api_v2_metadata_location_get",
                      parameters |-> <<param>>,
                      responses |-> ("200" :> response)] @@ body)))]

\* The documents the catalog is run on: two paths of the table and one path
\* that is not in it, each absent, with a get operation, with a get and a
\* post operation, or with a get operation that has no operationId.  The
\* identifiers are the generated ones, distinct for all operations, unless
\* the operation of the path outside the table already bears a name of the
\* table.
DatasetPath == "/api/v2/metadata/dataset"
ReportPath == "/api/v2/custom/report"
CatalogPaths == {DatasetPath, LocationPath, ReportPath}
PathShapes == {"absent", "get", "get_post", "get_unnamed"}

GeneratedId ==
    LET table ==
        (DatasetPath :> [get |-> "get_datasets_api_v2_metadata_dataset_get",
                         post |-> "post_datasets_api_v2_metadata_dataset_post"])
        @@ (LocationPath :> [get |-> "get_locations_api_v2_metadata_location_get",
                             post |-> "post_locations_api_v2_metadata_location_post"])
        @@ (ReportPath :> [get |-> "get_report_api_v2_custom_report_get",
                           post |-> "post_report_api_v2_custom_report_post"])
    IN [key \in DOMAIN table |-> table[key]]

CatalogOperation(path, method, shape, taken) ==
    IF shape = "get_unnamed" THEN [summary |-> "Unnamed operation"]
    ELSE [operationId |-> IF taken /\ path = ReportPath /\ method = "get"
                          THEN path_to_operation_id[DatasetPath]
                          ELSE GeneratedId[path][method],
          summary |-> "Generated operation"]

CatalogDocument(shapes, taken) ==
    [schemas |-> NoKeys,
     paths |-> [path \in {q \in CatalogPaths : shapes[q] # "absent"} |->
                  [method \in (IF shapes[path] = "get_post" THEN {"get", "post"}
                               ELSE {"get"}) |->
                      CatalogOperation(path, method, shapes[path], taken)]]]

\* The documents the description and guidance passes are run on: a path of
\* the data domains, a path of the location list, a path of both lists, the
\* identifier endpoint and a path of neither list, each with one operation
\* that has a summary, a description, both, neither, or a summary that
\* already carries the pagination advisory.
GuidancePaths == {IdpsPath, LocationPath, AdminPopulationPath, EncodePath, VersionPath}
TextShapes == {"summary", "description", "both", "neither", "annotated"}

SummaryText == <<"Summary of the operation.">>
DescriptionText == <<"Returns a list.", "See the <a>location endpoint</a> for details.">>

GuidanceOperation(shape) ==
    [parameters |-> <<[name |-> "location_code",
                       description |-> <<"Filter by code, see the", "location endpoint">>]>>]
    @@ (IF shape \in {"summary", "both"} THEN [summary |-> SummaryText]
        ELSE IF shape = "annotated"
        THEN [summary |-> SummaryText \o <<pagination_guidance>>]
        ELSE NoKeys)
    @@ (IF shape \in {"description", "both"} THEN [description |-> DescriptionText]
        ELSE NoKeys)

GuidanceDocument(shapes) ==
    [schemas |-> NoKeys,
     paths |-> [path \in GuidancePaths |-> ("get" :> GuidanceOperation(shapes[path]))]]

----------------------------------------------------------------------------
\* Start-up: main, HDXMCPServer.__init__ and the FastMCP server it builds.

\* The value of an environment variable is a sequence of characters.
MaxValueLen == 3
EnvChars == {" ", "\t", "k", ";"}
Whitespace == {" ", "\t", "\n"}
CredentialKey == "HDX_API_KEY"

RECURSIVE lstrip(_)
lstrip(value) ==
    IF value # <<>> /\ Head(value) \in Whitespace THEN lstrip(Tail(value)) ELSE value

RECURSIVE rstrip(_)
rstrip(value) ==
    IF value # <<>> /\ value[Len(value)] \in Whitespace
    THEN rstrip(SubSeq(value, 1, Len(value) - 1)) ELSE value

\* str.strip()
strip_Left(value) == lstrip(value)
strip(value) == rstrip(lstrip(value))

\* _get_required_env: os.getenv(key) is None for a key that is not set.
get_required_env(env, key) ==
    IF key \notin DOMAIN env \/ env[key] = <<>> \/ strip(env[key]) = <<>>
    THEN [t |-> "raise", key |-> key, v |-> <<>>]
    ELSE [t |-> "return", key |-> key, v |-> strip(env[key])]

\* _create_app_identifier with the default application name and e-mail.
b64encode(text) == [base64 |-> text]
create_app_identifier == b64encode(<<"hdx-mcp-server", ":", "assistant@example.com">>)

\* The server before __init__ has run: no credential, no client parameters,
\* no tool, no transport, no request sent.
NoServer ==
    [api_key |-> <<>>, params |-> NoKeys, error |-> "none", fetched |-> "none",
     tools |-> {}, transport |-> "none", exit_status |-> 0, request |-> NoKeys]

\* __init__ up to the creation of the client: the credential first.
Configure ==
    /\ stage = "start"
    /\ LET key == get_required_env(environ, CredentialKey)
       IN IF key.t = "raise"
          THEN /\ server' = [server EXCEPT !.error = key.key]
               /\ stage' = "failed"
          ELSE /\ server' = [server EXCEPT !.api_key = key.v,
                                           !.params = [app_identifier |-> create_app_identifier]]
               /\ stage' = "configured"
    /\ UNCHANGED <<limiter_vars, call_vars, lastread, loaded_spec, openapi_spec, passed, environ>>

\* _load_openapi_spec: httpx.get, raise_for_status and response.json(), each
\* of which raises on its failure; the exception leaves __init__.
FetchOutcomes == {"ok", "connect_error", "status_error", "malformed"}
Fetch_Unchecked(fetched, document) ==
    /\ stage = "configured"
    /\ server' = [server EXCEPT !.fetched = fetched]
    /\ loaded_spec' = document
    /\ openapi_spec' = document
    /\ stage' = "loaded"
    /\ UNCHANGED <<limiter_vars, call_vars, lastread, passed, environ>>
Fetch(fetched, document) ==
    /\ stage = "configured"
    /\ server' = [server EXCEPT !.fetched = fetched,
                                !.error = IF fetched = "ok" THEN @ ELSE fetched]
    /\ IF fetched = "ok"
       THEN /\ loaded_spec' = document
            /\ openapi_spec' = document
            /\ stage' = "loaded"
       ELSE /\ UNCHANGED <<loaded_spec, openapi_spec>>
            /\ stage' = "failed"
    /\ UNCHANGED <<limiter_vars, call_vars, lastread, passed, environ>>

\* _create_route_mappings: the rules in their order.  A pattern
\* ".*<words>$" is anchored at the end of the path, ".*<words>.*" is not.
create_route_mappings_ExcludeLast ==
    <<[words |-> <<"/", "metadata", "/">>, anchored |-> FALSE, mcp_type |-> "TOOL",
       mcp_tags |-> {"metadata", "reference"}],
      [words |-> <<"/", "affected", "-", "people", "/">>, anchored |-> FALSE,
       mcp_type |-> "TOOL", mcp_tags |-> {"affected-people", "humanitarian"}],
      [words |-> <<"/", "climate", "/">>, anchored |-> FALSE, mcp_type |-> "TOOL",
       mcp_tags |-> {"climate", "environmental"}],
      [words |-> <<"/", "coordination", "-", "context", "/">>, anchored |-> FALSE,
       mcp_type |-> "TOOL", mcp_tags |-> {"coordination", "humanitarian"}],
      [words |-> <<"/", "food", "-", "security", "-", "nutrition", "-", "poverty", "/">>,
       anchored |-> FALSE, mcp_type |-> "TOOL",
       mcp_tags |-> {"food-security", "nutrition", "poverty"}],
      [words |-> <<"/", "geography", "-", "infrastructure", "/">>, anchored |-> FALSE,
       mcp_type |-> "TOOL", mcp_tags |-> {"geography", "infrastructure", "population"}],
      [words |-> <<"/", "util", "/">>, anchored |-> FALSE, mcp_type |-> "TOOL",
       mcp_tags |-> {"utility", "system"}],
      [words |-> <<"/", "encode", "_", "app", "_", "identifier">>, anchored |-> TRUE,
       mcp_type |-> "EXCLUDE", mcp_tags |-> {"excluded", "utility"}]>>
create_route_mappings ==
    <<[words |-> <<"/", "encode", "_", "app", "_", "identifier">>, anchored |-> TRUE,
       mcp_type |-> "EXCLUDE", mcp_tags |-> {"excluded", "utility"}],
      [words |-> <<"/", "metadata", "/">>, anchored |-> FALSE, mcp_type |-> "TOOL",
       mcp_tags |-> {"metadata", "reference"}],
      [words |-> <<"/", "affected", "-", "people", "/">>, anchored |-> FALSE,
       mcp_type |-> "TOOL", mcp_tags |-> {"affected-people", "humanitarian"}],
      [words |-> <<"/", "climate", "/">>, anchored |-> FALSE, mcp_type |-> "TOOL",
       mcp_tags |-> {"climate", "environmental"}],
      [words |-> <<"/", "coordination", "-", "context", "/">>, anchored |-> FALSE,
       mcp_type |-> "TOOL", mcp_tags |-> {"coordination", "humanitarian"}],
      [words |-> <<"/", "food", "-", "security", "-", "nutrition", "-", "poverty", "/">>,
       anchored |-> FALSE, mcp_type |-> "TOOL",
       mcp_tags |-> {"food-security", "nutrition", "poverty"}],
      [words |-> <<"/", "geography", "-", "infrastructure", "/">>, anchored |-> FALSE,
       mcp_type |-> "TOOL", mcp_tags |-> {"geography", "infrastructure", "population"}],
      [words |-> <<"/", "util", "/">>, anchored |-> FALSE, mcp_type |-> "TOOL",
       mcp_tags |-> {"utility", "system"}]>>

\* re: the pattern of a rule on a path.
IsSuffix(fragment, words) ==
    /\ Len(fragment) <= Len(words)
    /\ SubSeq(words, Len(words) - Len(fragment) + 1, Len(words)) = fragment
Matches(route_map, path) ==
    IF route_map.anchored
    THEN IsSuffix(route_map.words, PathWords[path])
    ELSE IsInfix(route_map.words, PathWords[path])

\* FastMCP.from_openapi maps a route with the first rule whose pattern
\* matches its path, and with no rule of the list as a tool without tags of
\* the list.
DefaultRouteMap == [mcp_type |-> "TOOL", mcp_tags |-> {}]
RouteMapOf(path) ==
    LET hits == {i \in DOMAIN create_route_mappings : Matches(create_route_mappings[i], path)}
    IN IF hits = {} THEN DefaultRouteMap
       ELSE create_route_mappings[CHOOSE i \in hits : \A j \in hits : i <= j]

\* The input schema FastMCP derives from the parameters of an operation.
IsRequired(parameter) == "required" \in DOMAIN parameter /\ parameter["required"]
RequiredNames(parameters) ==
    LET names == [i \in DOMAIN parameters |-> parameters[i]["name"]]
    IN SelectSeq(names, LAMBDA n : \E i \in DOMAIN parameters :
                                     parameters[i]["name"] = n /\ IsRequired(parameters[i]))
InputSchema(operation) ==
    LET parameters == IF "parameters" \in DOMAIN operation
                      THEN operation["parameters"] ELSE <<>>
    IN [properties |-> [n \in {parameters[i]["name"] : i \in DOMAIN parameters} |->
                          LET i == CHOOSE j \in DOMAIN parameters : parameters[j]["name"] = n
                          IN IF "schema" \in DOMAIN parameters[i]
                             THEN parameters[i]["schema"] ELSE Dict(NoKeys)],
        required |-> RequiredNames(parameters)]

\* _customize_mcp_components on a tool: app_identifier leaves the properties
\* and the required names of a schema that has any key.
\* list.remove: the first occurrence goes.
Remove(names, name) ==
    LET at == {i \in DOMAIN names : names[i] = name}
    IN IF at = {} THEN names
       ELSE LET first == CHOOSE i \in at : \A j \in at : i <= j
            IN SubSeq(names, 1, first - 1) \o SubSeq(names, first + 1, Len(names))
customize_mcp_components_PropertiesOnly(parameters) ==
    [parameters EXCEPT
        !.properties = [n \in DOMAIN @ \ {"app_identifier"} |-> @[n]]]
customize_mcp_components(parameters) ==
    [parameters EXCEPT
        !.properties = [n \in DOMAIN @ \ {"app_identifier"} |-> @[n]],
        !.required = Remove(@, "app_identifier")]

\* The tools of _register_tools, with the arguments of their signatures.
RegisteredTools ==
    {[name |-> "hdx_server_info", path |-> "", method |-> "", tags |-> {},
      declared |-> InputSchema(NoKeys), parameters |-> InputSchema(NoKeys)],
     [name |-> "hdx_get_dataset_info", path |-> "", method |-> "", tags |-> {},
      declared |-> InputSchema([parameters |-> <<[name |-> "dataset_hdx_id", required |-> TRUE]>>]),
      parameters |-> InputSchema([parameters |-> <<[name |-> "dataset_hdx_id", required |-> TRUE]>>])],
     [name |-> "hdx_search_locations", path |-> "", method |-> "", tags |-> {},
      declared |-> InputSchema([parameters |-> <<[name |-> "name_pattern"], [name |-> "has_hrp"]>>]),
      parameters |-> InputSchema([parameters |-> <<[name |-> "name_pattern"], [name |-> "has_hrp"]>>])]}

\* The tools FastMCP.from_openapi builds: one for every operation whose
\* rule is not an exclusion, customized by _customize_mcp_components.
OpenAPITools(spec) ==
    {[name |-> IF "operationId" \in DOMAIN spec.paths[o[1]][o[2]]
               THEN spec.paths[o[1]][o[2]]["operationId"] ELSE "generated",
      path |-> o[1], method |-> o[2],
      tags |-> RouteMapOf(o[1]).mcp_tags,
      declared |-> InputSchema(spec.paths[o[1]][o[2]]),
      parameters |-> customize_mcp_components(InputSchema(spec.paths[o[1]][o[2]]))] :
        o \in {q \in UNION {{<<path, method>> : method \in DOMAIN spec.paths[path]} :
                              path \in DOMAIN spec.paths} :
                  RouteMapOf(q[1]).mcp_type # "EXCLUDE"}}

\* __init__ after _load_openapi_spec: _create_mcp_server and
\* _register_custom_tools.
CreateMcpServer ==
    /\ stage = "guided"
    /\ server' = [server EXCEPT !.tools = OpenAPITools(openapi_spec) \cup RegisteredTools]
    /\ stage' = "created"
    /\ UNCHANGED <<limiter_vars, call_vars, lastread, loaded_spec, openapi_spec, passed, environ>>

\* main: run_stdio or run_http on the server it has built.
Transports == {"stdio", "http"}
Run_transport(transport) ==
    /\ stage = "created"
    /\ server' = [server EXCEPT !.transport = transport]
    /\ stage' = "served"
    /\ UNCHANGED <<limiter_vars, call_vars, lastread, loaded_spec, openapi_spec, passed, environ>>

\* main: an exception of the constructor is logged and the process exits.
Exit ==
    /\ stage = "failed"
    /\ server' = [server EXCEPT !.exit_status = 1]
    /\ stage' = "exited"
    /\ UNCHANGED <<limiter_vars, call_vars, lastread, loaded_spec, openapi_spec, passed, environ>>

\* httpx merges the parameters of the client into those of a request; the
\* request's own win.
MergeParams(client_params, request_params) ==
    [n \in DOMAIN request_params \cup DOMAIN client_params |->
        IF n \in DOMAIN request_params THEN request_params[n] ELSE client_params[n]]

\* A tool is called with arguments of its advertised schema and sends its
\* request through the client (the admission of the request is Part 1).
ArgumentValue == "value"
SendRequest(tool, names) ==
    /\ stage = "served"
    /\ tool \in server.tools
    /\ names \subseteq DOMAIN tool.parameters.properties
    /\ server' = [server EXCEPT
                     !.request = MergeParams(server.params, [n \in names |-> ArgumentValue])]
    /\ UNCHANGED <<limiter_vars, call_vars, lastread, doc_vars, environ>>

\* The documents start-up is run on: the paths of the test fixture and an
\* identifier endpoint under /metadata/, the operations of two of them with
\* one of a few parameter lists.
StringSchema == Dict([type |-> Str("string")])
ParameterLists ==
    {<<>>,
     <<[name |-> "app_identifier", required |-> TRUE, schema |-> StringSchema]>>,
     <<[name |-> "app_identifier", required |-> TRUE, schema |-> StringSchema],
       [name |-> "limit", required |-> FALSE, schema |-> Dict([type |-> Str("integer")])]>>,
     <<[name |-> "location_code", required |-> TRUE, schema |-> StringSchema],
       [name |-> "app_identifier", schema |-> StringSchema]>>}

FixtureOperation(operation_id, summary, parameters) ==
    [operationId |-> operation_id, summary |-> <<summary>>, parameters |-> parameters]

FixturePaths == {LocationPath, EncodePath, MetadataEncodePath, IdpsPath}
FixtureDocument(location_parameters, idps_parameters) ==
    [schemas |-> NoKeys,
     paths |-> [path \in FixturePaths |->
                  [method \in {"get"} |->
                      IF path = LocationPath
                      THEN FixtureOperation("get_locations_test", "Test location endpoint",
                                            location_parameters)
                      ELSE IF path = EncodePath
                      THEN FixtureOperation("get_encoded_identifier",
                                            "Generate app identifier", <<>>)
                      ELSE IF path = MetadataEncodePath
                      THEN FixtureOperation("get_encoded_identifier_metadata",
                                            "Generate app identifier", <<>>)
                      ELSE FixtureOperation("get_idps_test", "Test IDPs endpoint",
                                            idps_parameters)]]]

RECURSIVE ValuesUpTo(_)
ValuesUpTo(n) ==
    IF n = 0 THEN {<<>>}
    ELSE LET shorter == ValuesUpTo(n - 1)
         IN shorter \cup {Append(v, c) : v \in shorter, c \in EnvChars}
Environments ==
    {NoKeys} \cup {(CredentialKey :> v) : v \in ValuesUpTo(MaxValueLen)}

\* The server once main serves: built from a set credential and a document
\* without paths.
ServedEnviron == (CredentialKey :> <<"k">>)
ServedServer ==
    [NoServer EXCEPT !.api_key = <<"k">>,
                     !.params = [app_identifier |-> create_app_identifier],
                     !.fetched = "ok",
                     !.tools = RegisteredTools,
                     !.transport = "stdio"]
LoadingServer ==
    [NoServer EXCEPT !.api_key = <<"k">>,
                     !.params = [app_identifier |-> create_app_identifier],
                     !.fetched = "ok"]
NotPassed == [spec |-> NoSpec, shared |-> {}]

----------------------------------------------------------------------------
\* The state after HDXMCPServer.__init__: the configuration read from the
\* environment, an empty Throttler, no invocation yet.
ServerInit ==
    /\ rate_limit_requests \in 1..MaxRate
    /\ rate_limit_period \in 1..MaxPeriod
    /\ task_logs = [t \in ThrottlerIds |-> <<>>]
    /\ window = <<>>
    /\ pc = [c \in Calls |-> "idle"]
    /\ entry = [c \in Calls |-> "none"]
    /\ args = [c \in Calls |-> "none"]
    /\ admits = [c \in Calls |-> 0]
    /\ waited = [c \in Calls |-> FALSE]
    /\ sent = [c \in Calls |-> <<>>]
    /\ outcome = [c \in Calls |-> "none"]
    /\ result = [c \in Calls |-> [t |-> "none", v |-> "none"]]
    /\ lastread = [name |-> "none", value |-> "none"]
    /\ passed = NotPassed

\* The server serves requests once the document pipeline has finished.
Init ==
    /\ ServerInit
    /\ loaded_spec = NoSpec
    /\ openapi_spec = NoSpec
    /\ stage = "served"
    /\ environ = ServedEnviron
    /\ server = ServedServer

\* Concurrent invocations sharing the limiter: one wrapper verb, one custom
\* tool, one forwarded method.
LimiterEntries == {"get", "search_locations", "send"}
LimiterOutcomes == {"ok", "timeout"}
LimiterArgs(e) ==
    IF e = "search_locations"
    THEN {[name_pattern |-> "None", has_hrp |-> "None"]}
    ELSE {"a1"}

Next ==
    \/ \E c \in Calls, e \in LimiterEntries : \E a \in LimiterArgs(e) : Invoke(c, e, a)
    \/ \E c \in Calls : Poll(c)
    \/ \E c \in Calls, o \in LimiterOutcomes : Complete(c, o)
    \/ \E c \in Calls : Cancel(c)
    \/ Tick

Spec == Init /\ [][Next]_vars

\* The event loop runs every task that is ready and the clock advances; no
\* caller cancels.
FairNext ==
    \/ \E c \in Calls, e \in {"get", "search_locations"} :
          \E a \in LimiterArgs(e) : Invoke(c, e, a)
    \/ \E c \in Calls : Poll(c)
    \/ \E c \in Calls : Complete(c, "ok")
    \/ Tick

FairSpec ==
    /\ Init /\ [][FairNext]_vars
    /\ WF_vars(Tick)
    /\ \A c \in Calls : WF_vars(Poll(c))

\* Every entry point, argument and outcome, for a few invocations.
GatewayCalls == 1..NumGatewayCalls

GatewayArgs(e) ==
    IF e = "search_locations"
    THEN {[name_pattern |-> "", has_hrp |-> "None"],
          [name_pattern |-> "Sudan", has_hrp |-> "False"]}
    ELSE ArgValues

GatewayNext ==
    \/ \E c \in GatewayCalls, e \in Entries : \E a \in GatewayArgs(e) : Invoke(c, e, a)
    \/ \E c \in GatewayCalls : Poll(c)
    \/ \E c \in GatewayCalls, o \in Outcomes : Complete(c, o)
    \/ \E c \in GatewayCalls : Cancel(c)
    \/ \E n \in ConfigAttrs : ReadAttr(n)
    \/ Tick

\* The gateway is run under the tightest limiter, one admission per tick.
GatewayInit == Init /\ rate_limit_requests = 1 /\ rate_limit_period = 1

GatewaySpec == GatewayInit /\ [][GatewayNext]_vars

\* Concurrent search_locations calls whose upstream call may fail.  Every
\* in-flight call ends: the base client is built with a request timeout.
IsolationNext ==
    \/ \E c \in Calls : \E a \in LimiterArgs("search_locations") :
          Invoke(c, "search_locations", a)
    \/ \E c \in Calls : Poll(c)
    \/ \E c \in Calls, o \in LimiterOutcomes : Complete(c, o)
    \/ Tick

IsolationSpec ==
    /\ Init /\ [][IsolationNext]_vars
    /\ WF_vars(Tick)
    /\ \A c \in Calls : WF_vars(Poll(c))
    /\ \A c \in Calls : WF_vars(\E o \in LimiterOutcomes : Complete(c, o))

\* The custom tools with every combination of their arguments.
ToolNext ==
    \/ \E c \in GatewayCalls, e \in CustomTools : \E a \in ArgsOf(e) : Invoke(c, e, a)
    \/ \E c \in GatewayCalls : Poll(c)
    \/ \E c \in GatewayCalls, o \in Outcomes : Complete(c, o)
    \/ Tick

ToolSpec == GatewayInit /\ [][ToolNext]_vars

\* _load_openapi_spec on documents that exercise the schema resolver.
ResolverInit ==
    /\ ServerInit /\ rate_limit_requests = 1 /\ rate_limit_period = 1
    /\ \E param \in ParamInputs, response \in ResponseInputs, body \in BodyInputs :
          loaded_spec = ResolverDocument(param, response, body)
    /\ openapi_spec = loaded_spec
    /\ stage = "loaded"
    /\ environ = ServedEnviron
    /\ server = LoadingServer

PipelineNext ==
    \/ FixSchemaReferences
    \/ SimplifyOperationIds

ResolverSpec == ResolverInit /\ [][PipelineNext]_vars

\* _load_openapi_spec on documents that exercise the operation catalog.
CatalogInit ==
    /\ ServerInit /\ rate_limit_requests = 1 /\ rate_limit_period = 1
    /\ \E shapes \in [CatalogPaths -> PathShapes], taken \in BOOLEAN :
          loaded_spec = CatalogDocument(shapes, taken)
    /\ openapi_spec = loaded_spec
    /\ stage = "loaded"
    /\ environ = ServedEnviron
    /\ server = LoadingServer

CatalogSpec == CatalogInit /\ [][PipelineNext]_vars

\* The four passes of _load_openapi_spec on documents that exercise the
\* description and guidance passes.
GuidanceInit ==
    /\ ServerInit /\ rate_limit_requests = 1 /\ rate_limit_period = 1
    /\ \E shapes \in [GuidancePaths -> TextShapes] :
          loaded_spec = GuidanceDocument(shapes)
    /\ openapi_spec = loaded_spec
    /\ stage = "loaded"
    /\ environ = ServedEnviron
    /\ server = LoadingServer

LoadNext ==
    \/ FixSchemaReferences
    \/ SimplifyOperationIds
    \/ UpdateParameterDescriptions
    \/ AddAdminLevelGuidance

GuidanceSpec == GuidanceInit /\ [][LoadNext]_vars

\* main from the start of the process, for every value of the credential.
StartupInit ==
    /\ ServerInit /\ rate_limit_requests = 1 /\ rate_limit_period = 1
    /\ loaded_spec = NoSpec
    /\ openapi_spec = NoSpec
    /\ stage = "start"
    /\ environ \in Environments
    /\ server = NoServer

StartupNext ==
    \/ Configure
    \/ \E fetched \in FetchOutcomes, location_parameters, idps_parameters \in ParameterLists :
          Fetch(fetched, FixtureDocument(location_parameters, idps_parameters))
    \/ LoadNext
    \/ CreateMcpServer
    \/ \E transport \in Transports : Run_transport(transport)
    \/ Exit
    \/ \E tool \in server.tools : \E names \in SUBSET DOMAIN tool.parameters.properties :
          SendRequest(tool, names)

StartupSpec == StartupInit /\ [][StartupNext]_vars

\* main is sequential: its except clause runs once the constructor has
\* raised.
ExitSpec == StartupInit /\ [][StartupNext]_vars /\ WF_vars(Exit)

----------------------------------------------------------------------------
\* Claims about the shared limiter.

\* C1: in every interleaving of invocations through the wrapper and through
\* _rate_limited_request, the admissions granted within any window of P
\* ticks number at most R.
C1_AdmissionsPerWindow == Len(window) <= rate_limit_requests

\* A wrapper call and a custom tool were both admitted, one call had to
\* wait, and the window is full.
C1_Witness ==
    /\ Len(window) = rate_limit_requests
    /\ \E c \in Calls : entry[c] \in HttpVerbs /\ admits[c] >= 1
    /\ \E c \in Calls : entry[c] \in CustomTools /\ admits[c] >= 1
    /\ \E c \in Calls : waited[c]

\* C2: a call suspended for admission is not failed or dropped by the
\* limiter: its only way out of the suspension is to be admitted, with its
\* base-client call made at once, and while time advances and no caller
\* cancels no call stays suspended for ever.
C2_SuspendedIsAdmitted ==
    /\ [][\A c \in Calls : pc[c] = "waiting" =>
             \/ pc'[c] = "waiting" /\ sent'[c] = <<>>
             \/ pc'[c] = "inflight" /\ Len(sent'[c]) = 1]_vars
    /\ \A c \in Calls : <>[](pc[c] # "waiting")

\* A call that had to wait has been admitted and has reached the base client.
C2_Witness ==
    \E c \in Calls : waited[c] /\ pc[c] = "inflight" /\ Len(sent[c]) = 1

\* C3: for each of get, post, put, patch, delete, head, options and request,
\* the base client's method of the same name is invoked only after the call
\* was admitted by the limiter, and exactly once per wrapper call.
C3_AdmittedThenInvokedOnce ==
    \A c \in Calls : entry[c] \in HttpVerbs =>
        /\ sent[c] # <<>> =>
              /\ admits[c] >= 1
              /\ Len(sent[c]) = 1
              /\ sent[c][1].method = entry[c]
        /\ pc[c] \in {"inflight", "done"} => Len(sent[c]) = 1
        /\ pc[c] = "waiting" => sent[c] = <<>>

\* A call of the wrapper's options() has been admitted and has completed.
C3_Witness ==
    \E c \in Calls :
        /\ entry[c] = "options" /\ pc[c] = "done" /\ admits[c] = 1
        /\ sent[c] = <<[method |-> "options", args |-> args[c]]>>

\* C4: no name reachable on the wrapper lets a caller reach the network
\* without a preceding admission.
C4_NoCallWithoutAdmission ==
    \A c \in Calls : sent[c] # <<>> => admits[c] >= 1

\* C5: from an empty limiter, R requests through _rate_limited_request are
\* each admitted without waiting, each consuming exactly one admission.
C5_OneAdmissionPerRequest ==
    /\ \A c \in Calls : entry[c] \in CustomTools => admits[c] <= 1
    /\ (/\ \A c \in Calls : entry[c] \in CustomTools \cup {"none"}
        /\ Cardinality({c \in Calls : entry[c] # "none"}) <= rate_limit_requests)
       => \A c \in Calls : ~waited[c]

C7_AccountedAtAdmission ==
    /\ [][\A c \in Calls : pc[c] = "inflight" /\ pc'[c] # "inflight" =>
             task_logs' = task_logs /\ window' = window]_vars
    /\ [](Len(flush(task_logs[ServerThrottler])) = Len(window))

\* With R = 1, two calls are in flight at once and neither of them waited:
\* the first was admitted more than P ticks before the second asked.
C7_Witness ==
    /\ rate_limit_requests = 1
    /\ \E c, d \in Calls :
        /\ c # d
        /\ entry[c] = "get" /\ pc[c] = "inflight" /\ ~waited[c]
        /\ entry[d] = "get" /\ pc[d] = "inflight" /\ ~waited[d]

\* C8: an invocation cancelled while suspended for admission leaves the
\* limiter as if it had never asked: no timestamp was added for it and no
\* network call was made for it.
C8_CancelLeavesNoTrace ==
    \A c \in Calls : pc[c] = "cancelled" /\ waited[c] /\ sent[c] = <<>> =>
        admits[c] = 0

----------------------------------------------------------------------------
\* Claims about the gateway.

\* C9: but for the admission delay, a call through the wrapper is the same
\* call on the base client: the arguments arrive unchanged, the response or
\* the exception comes back unchanged, and base_url, headers, timeout and
\* params read through the wrapper are those of the base client.
C9_WrapperIsTransparent ==
    /\ \A c \in Calls : entry[c] \in HttpVerbs =>
        /\ sent[c] # <<>> => sent[c][1].args = args[c]
        /\ pc[c] = "done" =>
              /\ result[c].v = outcome[c]
              /\ outcome[c] \in Raised => result[c].t = "raise"
              /\ outcome[c] \in Responded => result[c].t = "response"
    /\ lastread.name \in ConfigAttrs => lastread.value = BaseClient[lastread.name]

\* A put with the second argument value ended in a connection error, which
\* reached the caller, and the timeout was read through the wrapper.
C9_Witness ==
    /\ \E c \in Calls :
        /\ entry[c] = "put" /\ args[c] = "a2" /\ pc[c] = "done"
        /\ outcome[c] = "connect_error" /\ result[c].t = "raise"
    /\ lastread.name = "timeout"

\* C10: whatever way the transport fails (timeout, connection error,
\* non-success status, malformed body), search_locations and
\* get_dataset_info return an envelope with an error field and do not raise.
TransportFailures == {"timeout", "connect_error", "status_error", "malformed"}

C10_FailureBecomesEnvelope ==
    \A c \in Calls : entry[c] \in CustomTools /\ pc[c] = "done" =>
        /\ result[c].t = "envelope"
        /\ outcome[c] \in TransportFailures => "error" \in DOMAIN result[c].v

\* search_locations met a non-success status and returned an error envelope.
C10_Witness ==
    \E c \in Calls :
        /\ entry[c] = "search_locations" /\ pc[c] = "done"
        /\ outcome[c] = "status_error"
        /\ result[c].t = "envelope" /\ "error" \in DOMAIN result[c].v

\* C11: a tool invocation whose upstream call fails does not block or fail
\* any other invocation: the failure changes neither the limiter nor any
\* other call, and a call that completes afterwards gets its own result.
C11_FailureIsIsolated ==
    /\ [][\A c \in Calls :
            (pc[c] = "inflight" /\ pc'[c] = "done" /\ outcome'[c] \in TransportFailures)
            => /\ task_logs' = task_logs /\ window' = window
               /\ \A d \in Calls \ {c} :
                    /\ pc'[d] = pc[d] /\ admits'[d] = admits[d]
                    /\ sent'[d] = sent[d] /\ result'[d].t = result[d].t]_vars
    /\ [](\A d \in Calls :
            /\ pc[d] = "done" /\ outcome[d] = "ok" => "status" \in DOMAIN result[d].v
            /\ Len(window) <= rate_limit_requests)
    /\ \A d \in Calls : <>[](pc[d] \in {"idle", "done"})

\* One search_locations call timed out and returned an error envelope;
\* another, which had been waiting for admission, then completed with success.
C11_Witness ==
    \E c, d \in Calls :
        /\ c # d
        /\ entry[c] = "search_locations" /\ pc[c] = "done" /\ outcome[c] = "timeout"
        /\ "error" \in DOMAIN result[c].v
        /\ entry[d] = "search_locations" /\ pc[d] = "done" /\ outcome[d] = "ok"
        /\ waited[d] /\ "status" \in DOMAIN result[d].v

\* C12: every result of a custom tool that made an upstream call echoes the
\* caller's arguments unchanged, in the success and in the error envelopes:
\* filters_applied is {name_pattern, has_hrp} as supplied, also when an
\* argument was left out of the query, and dataset_hdx_id is the argument.
C12_ArgumentsEchoed ==
    \A c \in Calls : pc[c] = "done" =>
        /\ entry[c] = "search_locations" =>
              result[c].t = "envelope" /\ result[c].v.filters_applied = args[c]
        /\ entry[c] = "get_dataset_info" =>
              result[c].t = "envelope" /\ result[c].v.dataset_hdx_id = args[c]

\* search_locations was called with an empty name_pattern and has_hrp False,
\* sent only has_hrp=false, failed, and echoed both arguments.
C12_Witness ==
    \E c \in Calls :
        /\ entry[c] = "search_locations" /\ pc[c] = "done"
        /\ args[c] = [name_pattern |-> "", has_hrp |-> "False"]
        /\ sent[c][1].args = [k \in {"has_hrp"} |-> "false"]
        /\ outcome[c] = "connect_error"
        /\ result[c].v.filters_applied = [name_pattern |-> "", has_hrp |-> "False"]

----------------------------------------------------------------------------
\* The schema resolver.

\* The reference paths that occur anywhere in a JSON value.
RECURSIVE RefTargets(_)
RefTargets(obj) ==
    IF IsDict(obj) THEN
        (IF "$ref" \in DOMAIN obj.d THEN {obj.d["$ref"].p} ELSE {})
            \cup UNION {RefTargets(obj.d[key]) : key \in DOMAIN obj.d}
    ELSE IF IsList(obj) THEN UNION {RefTargets(obj.l[i]) : i \in 1..Len(obj.l)}
    ELSE {}

\* A reference node, and whether resolve_ref finds its target.
IsRefNode(obj) == IsDict(obj) /\ "$ref" \in DOMAIN obj.d
Resolvable(schemas, obj) == Truthy(resolve_ref(schemas, obj.d["$ref"].p))

\* The reference of a reference node names a definition of components/schemas.
TargetDefined(schemas, obj) ==
    obj.d["$ref"].p \in {SchemaRefs[name] : name \in DOMAIN schemas}

\* The operations of a document, as <<path, method>>.
OperationKeys(spec) ==
    UNION {{<<path, method>> : method \in DOMAIN spec.paths[path]} :
             path \in DOMAIN spec.paths}
OperationAt(spec, o) == spec.paths[o[1]][o[2]]

\* The schemas the pass has processed, each with the schema handed to the
\* resolver (for a parameter, after the default override) and the schema put
\* in its place: the parameter schemas, the response schemas and the
\* request-body schema of every operation.
ProcessedSchemas ==
    UNION {LET before == OperationAt(loaded_spec, o)
               after == OperationAt(openapi_spec, o)
           IN {[in |-> SetDefault(before.parameters[i]).schema,
                out |-> after.parameters[i].schema] :
                   i \in {n \in 1..Len(before.parameters) :
                            "schema" \in DOMAIN before.parameters[n]}}
              \cup {[in |-> before.responses[code].schema,
                     out |-> after.responses[code].schema] :
                        code \in {c \in DOMAIN before.responses :
                                    "schema" \in DOMAIN before.responses[c]}}
              \cup (IF "requestBody" \in DOMAIN before
                        /\ "schema" \in DOMAIN before.requestBody
                     THEN {[in |-> before.requestBody.schema,
                            out |-> after.requestBody.schema]}
                     ELSE {}) :
           o \in OperationKeys(loaded_spec)}

\* The parameter, response and request-body schemas of the only operation of
\* a resolver document.
ParamOf(spec) == spec.paths[LocationPath]["get"].parameters[1]
ResponseOf(spec) == spec.paths[LocationPath]["get"].responses["200"]

\* C13: after the resolver pass, a parameter, response or request-body
\* schema whose references all have a definition and all lie within the
\* depth bound contains no $ref node, whatever other keys the enclosing
\* objects carry.
C13_NoDanglingRefs ==
    stage # "loaded" =>
        \A s \in ProcessedSchemas : LET in == s.in  out == s.out IN (
            (/\ RefTargets(in) \subseteq {SchemaRefs[n] : n \in DOMAIN loaded_spec.schemas}
             /\ RecursionDepth(loaded_spec.schemas, in, 0) <= MaxDepth)
            => RefTargets(out) = {})

\* Every key of a reference node other than $ref is in res with its value.
SiblingsKept(node, res) ==
    \A key \in DOMAIN node.d \ {"$ref"} :
        key \in DOMAIN res.d /\ res.d[key] = node.d[key]

\* C14: where a reference is substituted, every sibling key of the reference
\* node is in the result with the local value, also when the target defines
\* the same key and when the target is itself a reference; this holds for
\* the schema itself, for the branches of its composite, and for the sibling
\* keys a chained target brings along.
C14_SiblingKeysWin ==
    stage # "loaded" =>
        \A s \in ProcessedSchemas : LET in == s.in  out == s.out IN (
            /\ (IsRefNode(in) /\ Resolvable(loaded_spec.schemas, in))
                    => SiblingsKept(in, out)
            /\ (IsRefNode(in) /\ Resolvable(loaded_spec.schemas, in)
                    /\ IsRefNode(resolve_ref(loaded_spec.schemas, in.d["$ref"].p)))
                    => LET target == resolve_ref(loaded_spec.schemas, in.d["$ref"].p)
                       IN \A key \in DOMAIN target.d \ ({"$ref"} \cup DOMAIN in.d) :
                             key \in DOMAIN out.d /\ out.d[key] = target.d[key]
            /\ (IsDict(in) /\ ~IsRefNode(in) /\ CompositeKey(in) # "none")
                    => LET key == CompositeKey(in)
                       IN \A i \in 1..Len(in.d[key].l) :
                             (IsRefNode(in.d[key].l[i])
                                 /\ Resolvable(loaded_spec.schemas, in.d[key].l[i]))
                             => SiblingsKept(in.d[key].l[i], out.d[key].l[i]))

\* A parameter referred to Alias (itself a reference to Name, which declares
\* default "declared") with a local default: the result is Name's schema
\* with the local default and Alias's title.
C14_Witness ==
    /\ stage = "fixed"
    /\ ParamOf(loaded_spec) =
          [name |-> "offset",
           schema |-> RefWith(SchemaRefs.Alias, [default |-> Str("local")])]
    /\ ParamOf(openapi_spec).schema =
          Dict([type |-> Str("string"), title |-> Str("Alias"), default |-> Str("local")])

\* C15: on every document, also when a definition refers to itself directly
\* or through its properties, the recursion of the resolver is bounded: it is
\* never entered deeper than one level past the depth bound, where it
\* returns the node as it is, so that the pass ends with a result in which a
\* self-referring definition has left a reference.
C15_CycleSafe ==
    stage # "loaded" =>
        \A s \in ProcessedSchemas : LET in == s.in  out == s.out IN (
            /\ RecursionDepth(loaded_spec.schemas, in, 0) <= MaxDepth + 1
            /\ \A ref \in {SchemaRefs.Node, SchemaRefs.Self} :
                  ref \in RefTargets(in) => ref \in RefTargets(out))

\* A parameter referred to Node, whose next property refers to Node: the
\* recursion reached the bound and the result still holds the reference.
C15_Witness ==
    /\ stage = "fixed"
    /\ ParamOf(loaded_spec) = [name |-> "offset", schema |-> Ref(SchemaRefs.Node)]
    /\ RecursionDepth(loaded_spec.schemas, ParamOf(loaded_spec).schema, 0) = MaxDepth + 1
    /\ ParamOf(openapi_spec).schema.d["type"] = Str("object")
    /\ SchemaRefs.Node \in RefTargets(ParamOf(openapi_spec).schema)

\* C16: an object that had anyOf, oneOf or allOf has that key after the
\* pass, with as many branches in the same order, each the resolution of
\* the original branch, and has kept its other keys.
C16_CompositePreserved ==
    stage # "loaded" =>
        \A s \in ProcessedSchemas : LET in == s.in  out == s.out IN (
            (IsDict(in) /\ ~IsRefNode(in)) =>
                \A key \in {"anyOf", "oneOf", "allOf"} \cap DOMAIN in.d :
                    IsList(in.d[key]) =>
                        /\ DOMAIN out.d = DOMAIN in.d
                        /\ IsList(out.d[key])
                        /\ Len(out.d[key].l) = Len(in.d[key].l)
                        /\ \A i \in 1..Len(in.d[key].l) :
                              out.d[key].l[i] =
                                resolve_refs_recursively(loaded_spec.schemas, in.d[key].l[i], 0))

\* C17: a reference whose target is not defined, or that does not point into
\* components/schemas, stays as it is with its sibling keys, as a schema and
\* as a branch of a composite, and the other schemas of the document are
\* resolved all the same.
C17_MissingTargetKept ==
    stage # "loaded" =>
        \A s \in ProcessedSchemas : LET in == s.in  out == s.out IN (
            /\ (IsRefNode(in) /\ ~TargetDefined(loaded_spec.schemas, in)) => out = in
            /\ (IsDict(in) /\ ~IsRefNode(in) /\ CompositeKey(in) # "none")
                    => LET key == CompositeKey(in)
                       IN \A i \in 1..Len(in.d[key].l) :
                             (IsRefNode(in.d[key].l[i])
                                 /\ ~TargetDefined(loaded_spec.schemas, in.d[key].l[i]))
                             => out.d[key].l[i] = in.d[key].l[i]
            /\ in = Ref(SchemaRefs.Name) => out = loaded_spec.schemas.Name)

\* The parameter refers to the undefined Gone and is unchanged; the response
\* of the same operation, which refers to Name, has been resolved.
C17_Witness ==
    /\ stage = "fixed"
    /\ ParamOf(loaded_spec) =
          [name |-> "offset",
           schema |-> RefWith(SchemaRefs.Gone, [description |-> Str("local")])]
    /\ ParamOf(openapi_spec) = ParamOf(loaded_spec)
    /\ ResponseOf(loaded_spec) = [schema |-> Ref(SchemaRefs.Name)]
    /\ ResponseOf(openapi_spec) = [schema |-> Definitions.Name]

\* C18: after the pass every parameter named limit, age_range or gender that
\* has a schema has the default 10, "all" and "all", also when its schema
\* was a reference to a definition that declares another default; the
\* schema of a parameter with any other name is the resolution of the
\* schema it had, its default untouched.
C18_DefaultsByName ==
    stage # "loaded" =>
        \A o \in OperationKeys(loaded_spec) :
            LET before == OperationAt(loaded_spec, o).parameters
                after == OperationAt(openapi_spec, o).parameters
            IN \A i \in 1..Len(before) :
                 "schema" \in DOMAIN before[i] =>
                    /\ before[i].name = "limit" =>
                          "default" \in DOMAIN after[i].schema.d
                              /\ after[i].schema.d["default"] = Num(10)
                    /\ before[i].name \in {"age_range", "gender"} =>
                          "default" \in DOMAIN after[i].schema.d
                              /\ after[i].schema.d["default"] = Str("all")
                    /\ before[i].name \notin {"limit", "age_range", "gender"} =>
                          after[i].schema =
                            resolve_refs_recursively(loaded_spec.schemas, before[i].schema, 0)

\* The gender parameter referred to Name, which declares the default
\* "declared": its resolved schema has the default "all".
C18_Witness ==
    /\ stage = "fixed"
    /\ ParamOf(loaded_spec) = [name |-> "gender", schema |-> Ref(SchemaRefs.Name)]
    /\ ParamOf(openapi_spec).schema =
          Dict([type |-> Str("string"), title |-> Str("Name"), default |-> Str("all")])

\* C29: the resolver pass applied to its own output returns that output.
C29_ResolverIdempotent ==
    stage = "fixed" => fix_openapi_schema_references(openapi_spec) = openapi_spec

----------------------------------------------------------------------------
\* The operation catalog.

\* The identifiers of the operations of a document, as a function of
\* <<path, method>>.
OperationIds(spec) ==
    [o \in {q \in OperationKeys(spec) : "operationId" \in DOMAIN OperationAt(spec, q)} |->
        OperationAt(spec, o).operationId]
Unique(ids) == \A o1, o2 \in DOMAIN ids : ids[o1] = ids[o2] => o1 = o2

C20_IdentifiersUnique ==
    (stage = "simplified" /\ Unique(OperationIds(loaded_spec)))
        => Unique(OperationIds(openapi_spec))

----------------------------------------------------------------------------
\* Claims about the guidance pass.

\* The summary and the description of an operation, where it has them.
Texts(operation) ==
    [key \in DOMAIN operation \cap {"summary", "description"} |-> operation[key]]
TextsOf(spec) == [o \in OperationKeys(spec) |-> Texts(OperationAt(spec, o))]

\* How many times a passage occurs in a text.
Occurrences(passage, text) == Cardinality({i \in DOMAIN text : text[i] = passage})

\* C21: the guidance pass applied to its own output leaves the summary and
\* the description of every operation as the first application made them.
C21_GuidanceIdempotent ==
    stage = "guided" =>
        TextsOf(add_admin_level_guidance(openapi_spec)) = TextsOf(openapi_spec)

\* An operation of a data-domain path whose summary came with the pagination
\* advisory has been given the class advisory, and carries each once.
C21_Witness ==
    /\ stage = "guided"
    /\ Texts(OperationAt(loaded_spec, <<IdpsPath, "get">>))
          = [summary |-> SummaryText \o <<pagination_guidance>>]
    /\ LET summary == OperationAt(openapi_spec, <<IdpsPath, "get">>)["summary"]
       IN /\ Occurrences(pagination_guidance, summary) = 1
          /\ Occurrences(admin_level_guidance, summary) = 1
          /\ OperationAt(add_admin_level_guidance(openapi_spec),
                         <<IdpsPath, "get">>)["summary"] = summary

\* The text of an operation that the pass works on: the summary if there is
\* one, else the description.
GuidedKey(operation) == IF "summary" \in DOMAIN operation THEN "summary" ELSE "description"
HasText(operation) == DOMAIN Texts(operation) # {}
Advisories == {admin_level_guidance, location_guidance, pagination_guidance}
Fresh(text) == \A advisory \in Advisories : ~In(advisory, text)

\* The class of a path: the data-domain list before the location list.
InAList(path) == AnyIn(admin_level_endpoints, path) \/ AnyIn(location_endpoints, path)
ClassAdvisory(path) ==
    IF AnyIn(admin_level_endpoints, path) THEN admin_level_guidance ELSE location_guidance

\* C22: an operation on a path of either list whose text (summary, or
\* description when it has no summary) carried no advisory ends with exactly
\* one class advisory, the aggregation one if the path is in the data-domain
\* list and the location one otherwise, followed by the pagination advisory.
C22_OneClassAdvisory ==
    stage = "guided" =>
        \A o \in OperationKeys(openapi_spec) :
            LET before == OperationAt(passed.spec, o)
                after == OperationAt(openapi_spec, o)
                key == GuidedKey(before)
            IN (HasText(before) /\ InAList(o[1]) /\ Fresh(before[key])) =>
                  after[key] = before[key] \o <<ClassAdvisory(o[1]), pagination_guidance>>

\* C23: the description of an operation without a summary becomes what the
\* summary of an operation on the same path becomes, from the same text.
C23_DescriptionLikeSummary ==
    stage = "guided" =>
        \A o \in OperationKeys(openapi_spec) :
            LET before == OperationAt(passed.spec, o)
                after == OperationAt(openapi_spec, o)
            IN (HasText(before) /\ GuidedKey(before) = "description") =>
                  after["description"]
                      = GuideOperation(o[1], [summary |-> before["description"]])["summary"]

\* C30: the guidance pass leaves the summary and the description of every
\* operation under /api/v2/encode_app_identifier as they were.
C30_EncodeSkipped ==
    stage = "guided" =>
        \A o \in OperationKeys(openapi_spec) :
            o[1] = EncodePath =>
                Texts(OperationAt(openapi_spec, o)) = Texts(OperationAt(passed.spec, o))

----------------------------------------------------------------------------
\* Claims about start-up and the tool set.

Elements(names) == {names[i] : i \in DOMAIN names}

\* C24: no tool advertises app_identifier among its properties or its
\* required names, every other property and required name of the schema
\* derived from the operation is advertised unchanged, and a request sent
\* through the client carries the app_identifier computed when the client
\* was created.
C24_IdentityStripped ==
    /\ \A tool \in server.tools :
          /\ "app_identifier" \notin DOMAIN tool.parameters.properties
          /\ "app_identifier" \notin Elements(tool.parameters.required)
          /\ DOMAIN tool.parameters.properties
                = DOMAIN tool.declared.properties \ {"app_identifier"}
          /\ \A n \in DOMAIN tool.parameters.properties :
                tool.parameters.properties[n] = tool.declared.properties[n]
          /\ tool.parameters.required
                = SelectSeq(tool.declared.required, LAMBDA n : n # "app_identifier")
    /\ server.request # NoKeys =>
          /\ "app_identifier" \in DOMAIN server.request
          /\ server.request["app_identifier"] = create_app_identifier

\* A tool derived from an operation that declares app_identifier as required
\* next to another parameter advertises the other parameter alone, and a
\* request with that parameter has been sent.
C24_Witness ==
    /\ stage = "served"
    /\ \E tool \in server.tools :
          /\ "app_identifier" \in Elements(tool.declared.required)
          /\ DOMAIN tool.parameters.properties = {"limit"}
    /\ DOMAIN server.request = {"app_identifier", "limit"}
    /\ server.request["app_identifier"] = create_app_identifier

\* C25: once the credential has been read, a value that is missing, empty
\* or made of whitespace has raised an error that names the key and no
\* credential is kept; any other value is kept from its first to its last
\* character that is not whitespace, every character between them as it was.
C25_RequiredEnv ==
    stage # "start" =>
        IF \/ CredentialKey \notin DOMAIN environ
           \/ \A i \in DOMAIN environ[CredentialKey] : environ[CredentialKey][i] \in Whitespace
        THEN /\ stage \in {"failed", "exited"}
             /\ server.error = CredentialKey
             /\ server.api_key = <<>>
        ELSE LET value == environ[CredentialKey]
                 kept == {i \in DOMAIN value : value[i] \notin Whitespace}
                 first == CHOOSE i \in kept : \A j \in kept : i <= j
                 last == CHOOSE i \in kept : \A j \in kept : j <= i
             IN /\ server.api_key = SubSeq(value, first, last)
                /\ server.error # CredentialKey

\* A value with whitespace on both sides of a shell metacharacter has been
\* accepted and trimmed.
C25_Witness ==
    /\ stage = "configured"
    /\ environ = (CredentialKey :> <<" ", ";", "\t">>)
    /\ server.api_key = <<";">>

\* The tools built from the operations of a path.
ToolsAt(path) == {tool \in server.tools : tool.path = path}
EncodeSuffix == <<"/", "encode", "_", "app", "_", "identifier">>

\* C27: once the tools are built, no operation on a path that ends in
\* /encode_app_identifier is a tool, whatever other rule its path matches,
\* and every other operation is a tool tagged by the first rule of the list
\* that matches its path.
C27_ExclusionFirst ==
    stage \in {"created", "served"} =>
        \A o \in OperationKeys(openapi_spec) :
            IF IsSuffix(EncodeSuffix, PathWords[o[1]])
            THEN ToolsAt(o[1]) = {}
            ELSE \E tool \in ToolsAt(o[1]) :
                    /\ tool.method = o[2]
                    /\ \A i \in DOMAIN create_route_mappings :
                          (/\ Matches(create_route_mappings[i], o[1])
                           /\ \A j \in 1..(i - 1) : ~Matches(create_route_mappings[j], o[1]))
                              => tool.tags = create_route_mappings[i].mcp_tags

\* The identifier endpoint under /metadata/ matches the metadata rule and is
\* not a tool, while the location endpoint is a tool of the metadata rule.
C27_Witness ==
    /\ stage = "created"
    /\ MetadataEncodePath \in DOMAIN openapi_spec.paths
    /\ \E i \in DOMAIN create_route_mappings :
          /\ create_route_mappings[i].mcp_type = "TOOL"
          /\ Matches(create_route_mappings[i], MetadataEncodePath)
    /\ ToolsAt(MetadataEncodePath) = {}
    /\ ToolsAt(EncodePath) = {}
    /\ \E tool \in ToolsAt(LocationPath) : tool.tags = {"metadata", "reference"}

\* The credential is missing or blank.
BlankCredential ==
    \/ CredentialKey \notin DOMAIN environ
    \/ \A i \in DOMAIN environ[CredentialKey] : environ[CredentialKey][i] \in Whitespace
Failed == stage \in {"failed", "exited"}

\* C28: the document is fetched only once a credential has been accepted; a
\* blank credential, a fetch that fails, a response that is not a success
\* and a body that does not parse each abort the construction; from then on
\* the server has no tool and no transport, and main exits with a status
\* that is not zero.
C28_StartupFailuresFatal ==
    /\ [](server.fetched # "none" => ~BlankCredential /\ server.api_key # <<>>)
    /\ []((stage # "start" /\ BlankCredential) => Failed)
    /\ [](server.fetched \in FetchOutcomes \ {"ok"} => Failed)
    /\ [](Failed => server.tools = {} /\ server.transport = "none")
    /\ [][Failed => Failed']_vars
    /\ [](stage = "exited" => server.exit_status # 0)
    /\ (stage = "failed") ~> (stage = "exited")

\* main has exited after a response that did not parse.
C28_Witness ==
    /\ stage = "exited"
    /\ server.exit_status = 1
    /\ server.tools = {}
    /\ server.transport = "none"
    /\ server.fetched = "malformed"
    /\ server.api_key # <<>>

====
